---- MODULE Spec2Model ----
(***************************************************************************)
(* A model of docs2skill.py: link collection and host filtering, page      *)
(* archiving with collision-free file names, the LLM gateway dispatch and  *)
(* the bundle finalizer (rename + SKILL.md), plus the two naming           *)
(* functions get_domain_name and get_filename_from_url.                    *)
(*                                                                         *)
(* Text is modelled as a sequence of one-character strings, so that        *)
(* split / join / strip / regular-expression substitutions are computed    *)
(* the way the Python code computes them.                                  *)
(***************************************************************************)
EXTENDS Integers, Sequences, FiniteSets, TLC

\* ------------------------------------------------------------------ bounds
\* At most this many links are found on the seed page.
MaxLinks == 2
\* At most this many path segments in the paths given to get_filename_from_url.
MaxSegs == 3
\* At most this many dot-separated labels in the hosts given to get_domain_name.
MaxLabels == 3

\* -------------------------------------------------------- program constants
max_segments == 3
MaxFilenameLen == 100
MinHyphenCut == 50

\* ------------------------------------------------------------ text helpers
UpperChars == <<"A","B","C","D","E","F","G","H","I","J","K","L","M",
                "N","O","P","Q","R","S","T","U","V","W","X","Y","Z">>
LowerChars == <<"a","b","c","d","e","f","g","h","i","j","k","l","m",
                "n","o","p","q","r","s","t","u","v","w","x","y","z">>
DigitChars == <<"0","1","2","3","4","5","6","7","8","9">>

Range(s) == {s[i] : i \in DOMAIN s}

\* str.lower() on one character, then on a whole text.
UpperToLower ==
    [c \in Range(UpperChars) |->
        LowerChars[CHOOSE i \in DOMAIN UpperChars : UpperChars[i] = c]]

LowerChar(c) == IF c \in DOMAIN UpperToLower THEN UpperToLower[c] ELSE c

Lower(s) == [i \in DOMAIN s |-> LowerChar(s[i])]

\* The regular-expression class \w: letters, digits and the underscore.
WordChars ==
    Range(UpperChars) \cup Range(LowerChars) \cup Range(DigitChars) \cup {"_"}

IsWordChar(c) == c \in WordChars

\* str.split(sep) for a one-character separator: empty pieces are kept.
RECURSIVE Split(_, _)
Split(s, sep) ==
    IF \A i \in DOMAIN s : s[i] # sep THEN <<s>>
    ELSE LET i == CHOOSE k \in DOMAIN s :
                      s[k] = sep /\ \A j \in 1..(k - 1) : s[j] # sep
         IN  <<SubSeq(s, 1, i - 1)>> \o Split(SubSeq(s, i + 1, Len(s)), sep)

\* sep.join(parts)
RECURSIVE Join(_, _)
Join(parts, sep) ==
    IF parts = <<>> THEN <<>>
    ELSE IF Len(parts) = 1 THEN parts[1]
    ELSE parts[1] \o <<sep>> \o Join(Tail(parts), sep)

\* str.strip(ch): drop every leading and trailing ch.
RECURSIVE LStrip(_, _)
LStrip(s, ch) ==
    IF s # <<>> /\ s[1] = ch THEN LStrip(Tail(s), ch) ELSE s

RECURSIVE RStrip(_, _)
RStrip(s, ch) ==
    IF s # <<>> /\ s[Len(s)] = ch THEN RStrip(SubSeq(s, 1, Len(s) - 1), ch) ELSE s

Strip(s, ch) == RStrip(LStrip(s, ch), ch)

EndsWith(s, suffix) ==
    /\ Len(s) >= Len(suffix)
    /\ SubSeq(s, Len(s) - Len(suffix) + 1, Len(s)) = suffix

\* str(n) for a natural number.
RECURSIVE Decimal(_)
Decimal(n) ==
    IF n < 10 THEN <<DigitChars[n + 1]>>
    ELSE Decimal(n \div 10) \o <<DigitChars[(n % 10) + 1]>>

\* ------------------------------------------------------------ text literals
s_docs == <<"d","o","c","s">>
s_documentation == <<"d","o","c","u","m","e","n","t","a","t","i","o","n">>
s_reference == <<"r","e","f","e","r","e","n","c","e">>
s_guide == <<"g","u","i","d","e">>
s_api_reference == <<"a","p","i","-","r","e","f","e","r","e","n","c","e">>
s_en == <<"e","n">>
s_v1 == <<"v","1">>
s_v2 == <<"v","2">>
s_v3 == <<"v","3">>
s_index == <<"i","n","d","e","x">>
s_page == <<"p","a","g","e">>
s_md == <<".","m","d">>
s_use == <<"u","s","e","-">>
s_webhooks == <<"w","e","b","h","o","o","k","s">>
s_events == <<"e","v","e","n","t","s">>
s_foo == <<"f","o","o">>
s_foo_1 == <<"f","o","o","_","1">>
s_com == <<"c","o","m">>
s_b == <<"b">>
s_api == <<"a","p","i">>
s_http == <<"h","t","t","p">>
s_https == <<"h","t","t","p","s">>

\* ------------------------------------------------------------------- URLs
\* A URL is the record of its components; urlparse's netloc is the whole
\* authority: [userinfo "@"] host [":" port].
Netloc(u) ==
    (IF u.userinfo = <<>> THEN <<>> ELSE u.userinfo \o <<"@">>)
    \o u.host
    \o (IF u.port = <<>> THEN <<>> ELSE <<":">> \o u.port)

MkUrl(scheme, userinfo, host, port, path) ==
    [scheme |-> scheme, userinfo |-> userinfo, host |-> host, port |-> port,
     path |-> path]

\* ------------------------------------------------------------ naming engine
\* get_domain_name(url)
get_domain_name(u) ==
    LET domain == Split(Netloc(u), ":")[1]
        parts == Split(domain, ".")
        domain_name == IF Len(parts) >= 2 THEN parts[Len(parts) - 1] ELSE parts[1]
    IN  Lower(domain_name)

skip_prefixes ==
    {s_docs, s_documentation, s_reference, s_guide, s_api_reference,
     s_en, s_v1, s_v2, s_v3}

\* Faulty variant: the stop-list is matched case-sensitively.
FilenameSegments_CaseSensitive(path) ==
    LET original == Split(path, "/")
        kept == SelectSeq(original, LAMBDA s : s \notin skip_prefixes)
        segments == IF kept = <<>>
                    THEN SubSeq(original, Len(original), Len(original))
                    ELSE kept
    IN  IF Len(segments) > max_segments
        THEN SubSeq(segments, Len(segments) - max_segments + 1, Len(segments))
        ELSE segments

\* Lines 357-378: the path segments that make up the file name
\* (only called for a path that is not empty once stripped of '/').
FilenameSegments(path) ==
    LET original == Split(path, "/")
        kept == SelectSeq(original, LAMBDA s : Lower(s) \notin skip_prefixes)
        segments == IF kept = <<>>
                    THEN SubSeq(original, Len(original), Len(original))
                    ELSE kept
    IN  IF Len(segments) > max_segments
        THEN SubSeq(segments, Len(segments) - max_segments + 1, Len(segments))
        ELSE segments

PageExtensions ==
    {<<".","h","t","m","l">>, <<".","h","t","m">>, <<".","p","h","p">>,
     <<".","a","s","p">>, <<".","a","s","p","x">>}

\* re.sub(r'\.(html|htm|php|asp|aspx)$', '', filename, flags=re.IGNORECASE)
StripExtension(filename) ==
    IF \E e \in PageExtensions : EndsWith(Lower(filename), e)
    THEN LET e == CHOOSE x \in PageExtensions : EndsWith(Lower(filename), x)
         IN  SubSeq(filename, 1, Len(filename) - Len(e))
    ELSE filename

\* re.sub(r'[^\w\-]', '-', filename)
Sanitize(filename) ==
    [i \in DOMAIN filename |->
        IF IsWordChar(filename[i]) \/ filename[i] = "-" THEN filename[i] ELSE "-"]

\* The characters of s at the positions lo..hi that are in keep, in order.
RECURSIVE KeepAt(_, _, _, _)
KeepAt(s, keep, lo, hi) ==
    IF lo > hi THEN <<>>
    ELSE IF lo = hi THEN (IF lo \in keep THEN <<s[lo]>> ELSE <<>>)
    ELSE LET mid == (lo + hi) \div 2
         IN  KeepAt(s, keep, lo, mid) \o KeepAt(s, keep, mid + 1, hi)

\* re.sub(r'-+', '-', filename): of every run of hyphens the first one stays.
CollapseHyphens(s) ==
    KeepAt(s, {i \in DOMAIN s : ~(s[i] = "-" /\ i > 1 /\ s[i - 1] = "-")}, 1, Len(s))

\* str.rfind('-'), 0-based, -1 when there is none.
RFind(s, ch) ==
    IF \E i \in DOMAIN s : s[i] = ch
    THEN (CHOOSE i \in DOMAIN s : s[i] = ch /\ \A j \in DOMAIN s : s[j] = ch => j <= i) - 1
    ELSE -1

\* Lines 395-401: the length limit.
Truncate(filename) ==
    IF Len(filename) > MaxFilenameLen
    THEN LET cut == SubSeq(filename, 1, MaxFilenameLen)
             last_hyphen == RFind(cut, "-")
         IN  IF last_hyphen > MinHyphenCut THEN SubSeq(cut, 1, last_hyphen) ELSE cut
    ELSE filename

\* Lines 380-403: from the joined segments to the file name.
FinishFilename(joined) ==
    LET filename == Truncate(Strip(CollapseHyphens(Sanitize(StripExtension(joined))), "-"))
    IN  IF filename = <<>> THEN s_page ELSE filename

\* get_filename_from_url(url)
get_filename_from_url(u) ==
    LET path == Strip(u.path, "/")
    IN  IF path = <<>> THEN s_index
        ELSE FinishFilename(Join(FilenameSegments(path), "-"))

\* ------------------------------------------------------ the run's inputs
h_docs_b_com == Join(<<s_docs, s_b, s_com>>, ".")
h_api_b_com == Join(<<s_api, s_b, s_com>>, ".")

\* The seed URLs a run may be started on.
SeedUrls ==
    {MkUrl(s_https, <<>>, h_docs_b_com, <<>>, <<"/">>),
     MkUrl(s_https, <<>>, h_docs_b_com, <<"8">>, <<"/">>)}

\* The absolute URLs that may be found on the seed page (urljoin's results).
LinkUrls ==
    <<MkUrl(s_https, <<>>, h_docs_b_com, <<>>, <<"/">> \o s_foo),
      MkUrl(s_https, <<>>, h_docs_b_com, <<>>, <<"/">> \o s_docs \o <<"/">> \o s_foo),
      MkUrl(s_https, <<>>, h_docs_b_com, <<>>, <<"/">> \o s_foo_1),
      MkUrl(s_https, <<>>, h_api_b_com, <<>>, <<"/">> \o s_foo),
      MkUrl(s_http, <<>>, h_docs_b_com, <<"8">>, <<"/">>)>>

LinkIds == DOMAIN LinkUrls

\* What resources/ may hold before the run (the directory may already exist).
InitialFile == [src |-> 0, complete |-> TRUE]
InitialFileSets == {{}, {s_foo \o s_md}}

\* args.output: <<>> stands for None (the default, ../<domain>).
s_use_b == s_use \o s_b
OutputArgs == {<<>>, s_use_b}

\* ------------------------------------------------------------------ state
VARIABLES
    pc,            \* where main() is
    url,           \* args.url, the seed
    all_domains,   \* args.all_domains
    output,        \* args.output (<<>>: not given)
    bundleDir,     \* the name of the directory on disk that holds the bundle
    files,         \* resources/ of that directory: file name -> content
    skill,         \* SKILL.md: whether written, where and what
    seed_fetch,    \* how the request for the seed page ended
    collected,     \* what get_all_links returned
    links,         \* main's links, after the filter
    remaining,     \* the links the for loop has not reached
    last,          \* the latest scrape_url call: its link, response, write outcome
    attempts,      \* per link: how many times scrape_url was called with it
    results,       \* per link: what scrape_url returned
    successful,    \* main's counter
    config,        \* generate_skill_md's LLMConfig
    fin_output_dir,\* generate_skill_md's local output_dir
    llm_path,      \* the provider function call_llm chose
    llm_outcome,   \* how the LLM HTTP call ended
    llm_response,  \* the text call_llm returned
    net_calls,     \* HTTP requests made to an LLM endpoint
    cleaned_name,  \* generate_skill_md's locals after parsing
    skill_content,
    returned,      \* what generate_skill_md returned
    fn_arg,        \* the naming functions' argument and result (SpecDomain,
    fn_ret         \* SpecFilename)

runVars == <<pc, url, all_domains, output, bundleDir, files, skill, seed_fetch, collected,
             links, remaining, last, attempts, results, successful>>
finVars == <<config, fin_output_dir, llm_path, llm_outcome, llm_response,
             net_calls, cleaned_name, skill_content, returned>>
fnVars == <<fn_arg, fn_ret>>
vars == <<runVars, finVars, fnVars>>

NoConfig == [provider |-> "", api_key |-> "", endpoint |-> ""]
NoSkill == [written |-> FALSE, complete |-> FALSE, dir |-> <<>>, content |-> ""]
NoText == [json |-> "none", fields |-> <<>>, raw |-> ""]
NoFn == [called |-> FALSE, fn |-> "none", url |-> <<>>]
NoCall == [link |-> 0, response |-> "none", write |-> "none"]

FinInit ==
    /\ config = NoConfig
    /\ fin_output_dir = <<>>
    /\ llm_path = "none"
    /\ llm_outcome = "none"
    /\ llm_response = NoText
    /\ net_calls = 0
    /\ cleaned_name = <<>>
    /\ skill_content = ""
    /\ returned = <<>>

Init ==
    /\ pc = "start"
    /\ url \in SeedUrls
    /\ all_domains \in BOOLEAN
    /\ output \in OutputArgs
    /\ bundleDir = <<>>
    /\ \E names \in InitialFileSets : files = [f \in names |-> InitialFile]
    /\ skill = NoSkill
    /\ seed_fetch = "none"
    /\ collected = {}
    /\ links = {}
    /\ remaining = {}
    /\ last = NoCall
    /\ attempts = [l \in LinkIds |-> 0]
    /\ results = [l \in LinkIds |-> "none"]
    /\ successful = 0
    /\ FinInit
    /\ fn_arg = NoFn
    /\ fn_ret = <<>>

\* ------------------------------------------------------------ link collector
\* get_all_links(url): the set of links of the page, or the empty set when the
\* request raises (network error, timeout, non-2xx status).
get_all_links(response) ==
    IF response.ok THEN response.links ELSE {}

\* Faulty variant: links are kept when their domain name, not their netloc, is the seed's.
FilterLinks_ByDomainName(seed, found) ==
    {l \in found : get_domain_name(LinkUrls[l]) = get_domain_name(seed)}

\* Lines 649-651: the same-domain filter.
FilterLinks(seed, found) ==
    {l \in found : Netloc(LinkUrls[l]) = Netloc(seed)}

SeedResponses ==
    {[ok |-> FALSE, links |-> {}]}
    \cup {[ok |-> TRUE, links |-> L] :
            L \in {S \in SUBSET LinkIds : Cardinality(S) <= MaxLinks}}

\* Faulty variant: the early return of lines 644-646 is missing, main goes on
\* to the loop with no links.
MainCollect_NoEmptyCheck ==
    /\ pc = "start"
    /\ \E response \in SeedResponses :
        LET found == get_all_links(response)
            dir == IF output = <<>> THEN get_domain_name(url) ELSE output
            kept == IF all_domains THEN found ELSE FilterLinks(url, found)
        IN  /\ output' = dir
            /\ bundleDir' = dir
            /\ seed_fetch' = IF response.ok THEN "ok" ELSE "error"
            /\ collected' = found
            /\ pc' = "scrape"
            /\ links' = kept
            /\ remaining' = kept
    /\ UNCHANGED <<url, all_domains, files, skill, last, attempts, results,
                   successful, finVars, fnVars>>

\* main(), lines 631-655: the output directory, the seed's links, the filter.
MainCollect ==
    /\ pc = "start"
    /\ \E response \in SeedResponses :
        LET found == get_all_links(response)
            dir == IF output = <<>> THEN get_domain_name(url) ELSE output
            kept == IF all_domains THEN found ELSE FilterLinks(url, found)
        IN  /\ output' = dir
            /\ bundleDir' = dir
            /\ seed_fetch' = IF response.ok THEN "ok" ELSE "error"
            /\ collected' = found
            /\ IF found = {}
               THEN /\ pc' = "done"
                    /\ UNCHANGED <<links, remaining>>
               ELSE /\ pc' = "scrape"
                    /\ links' = kept
                    /\ remaining' = kept
    /\ UNCHANGED <<url, all_domains, files, skill, last, attempts, results,
                   successful, finVars, fnVars>>

\* ------------------------------------------------------------ page archiver
\* os.path.splitext on a file name: the extension starts at the last dot that
\* is not one of the leading dots.
SplitExt(p) ==
    LET dots == {i \in DOMAIN p : p[i] = "." /\ \E j \in 1..(i - 1) : p[j] # "."}
    IN  IF dots = {} THEN <<p, <<>>>>
        ELSE LET i == CHOOSE d \in dots : \A e \in dots : e <= d
             IN  <<SubSeq(p, 1, i - 1), SubSeq(p, i, Len(p))>>

\* Lines 459-465: the first path, among original, name_1.ext, name_2.ext, ...,
\* that does not exist.
RECURSIVE NextFreePath(_, _, _, _)
NextFreePath(existing, original_filepath, filepath, counter) ==
    IF filepath \in existing
    THEN LET name == SplitExt(original_filepath)[1]
             ext == SplitExt(original_filepath)[2]
         IN  NextFreePath(existing, original_filepath,
                          name \o <<"_">> \o Decimal(counter) \o ext, counter + 1)
    ELSE filepath

\* Faulty variant: no collision loop, the path derived from the URL is used as it is.
UniquePath_NoLoop(existing, filepath) == filepath

UniquePath(existing, filepath) == NextFreePath(existing, filepath, filepath, 1)

\* open(filepath, 'w') and the writes: the file is created, or replaced when it
\* exists.
WriteFile(fs, filepath, content) ==
    [f \in DOMAIN fs \cup {filepath} |-> IF f = filepath THEN content ELSE fs[f]]

\* How the page request ends: it raises (network error, timeout, non-2xx), or
\* answers with a content type and a body.
PageResponses == {"error", "nonhtml", "empty", "html"}
\* How creating and writing the file ends: done; makedirs or open raises (no
\* file); a write raises after open created the file.
WriteOutcomes == {"ok", "open_failed", "write_failed"}

\* Faulty variant: the content-type test of lines 441-443 is missing, a
\* non-HTML answer is converted and written like a page.
ScrapeBody_NoTypeCheck(fs, l, response, write) ==
    IF response = "error" THEN [files |-> fs, ret |-> "raised"]
    ELSE IF response = "empty" THEN [files |-> fs, ret |-> "false"]
    ELSE LET filename == get_filename_from_url(LinkUrls[l]) \o s_md
             filepath == UniquePath(DOMAIN fs, filename)
         IN  IF write = "open_failed" THEN [files |-> fs, ret |-> "raised"]
             ELSE IF write = "write_failed"
             THEN [files |-> WriteFile(fs, filepath, [src |-> l, complete |-> FALSE]),
                   ret |-> "raised"]
             ELSE [files |-> WriteFile(fs, filepath, [src |-> l, complete |-> TRUE]),
                   ret |-> "true"]

\* Lines 435-475, the body of scrape_url's try: the directory's files
\* afterwards and "true", "false" or "raised" (an exception left the body).
ScrapeBody(fs, l, response, write) ==
    IF response = "error" THEN [files |-> fs, ret |-> "raised"]
    ELSE IF response = "nonhtml" THEN [files |-> fs, ret |-> "false"]
    ELSE IF response = "empty" THEN [files |-> fs, ret |-> "false"]
    ELSE LET filename == get_filename_from_url(LinkUrls[l]) \o s_md
             filepath == UniquePath(DOMAIN fs, filename)
         IN  IF write = "open_failed" THEN [files |-> fs, ret |-> "raised"]
             ELSE IF write = "write_failed"
             THEN [files |-> WriteFile(fs, filepath, [src |-> l, complete |-> FALSE]),
                   ret |-> "raised"]
             ELSE [files |-> WriteFile(fs, filepath, [src |-> l, complete |-> TRUE]),
                   ret |-> "true"]

\* Faulty variant: no except clause, an exception leaves scrape_url.
scrape_url_NoExcept(fs, l, response, write) == ScrapeBody(fs, l, response, write)

\* scrape_url(url, output_dir): lines 476-478 turn an exception into False.
scrape_url(fs, l, response, write) ==
    LET r == ScrapeBody(fs, l, response, write)
    IN  IF r.ret = "raised" THEN [r EXCEPT !.ret = "false"] ELSE r

\* main(), lines 659-661: one iteration of the for loop over the set links.
\* An exception that scrape_url let out would end main.
MainScrape(l) ==
    /\ pc = "scrape"
    /\ l \in remaining
    /\ \E response \in PageResponses, write \in WriteOutcomes :
        LET r == scrape_url(files, l, response, write)
        IN  /\ last' = [link |-> l, response |-> response,
                         write |-> IF response = "html" THEN write ELSE "none"]
            /\ attempts' = [attempts EXCEPT ![l] = @ + 1]
            /\ results' = [results EXCEPT ![l] = r.ret]
            /\ files' = r.files
            /\ successful' = IF r.ret = "true" THEN successful + 1 ELSE successful
            /\ pc' = IF r.ret = "raised" THEN "crashed" ELSE "scrape"
    /\ remaining' = remaining \ {l}
    /\ UNCHANGED <<url, all_domains, output, bundleDir, skill, seed_fetch,
                   collected, links, finVars, fnVars>>

\* main(), lines 663-671: after the loop, generate_skill_md is called when a
\* page was scraped.
MainAfterLoop ==
    /\ pc = "scrape"
    /\ remaining = {}
    /\ IF successful > 0
       THEN /\ pc' = "fin_validate"
            /\ fin_output_dir' = output
       ELSE /\ pc' = "done"
            /\ UNCHANGED fin_output_dir
    /\ UNCHANGED <<url, all_domains, output, bundleDir, files, skill, seed_fetch,
                   collected, links, remaining, last, attempts, results,
                   successful, config, llm_path, llm_outcome, llm_response,
                   net_calls, cleaned_name, skill_content, returned, fnVars>>

\* ------------------------------------------------------------- LLM gateway
PROVIDER_DEFAULTS ==
    [p \in {"anthropic", "openai", "openrouter", "gemini", "grok", "ollama"} |->
        CASE p = "anthropic" -> "https://api.anthropic.com/v1/messages"
          [] p = "openai" -> "https://api.openai.com/v1/chat/completions"
          [] p = "openrouter" -> "https://openrouter.ai/api/v1/chat/completions"
          [] p = "gemini" -> "https://generativelanguage.googleapis.com/v1beta/models/"
          [] p = "grok" -> "https://api.x.ai/v1/chat/completions"
          [] p = "ollama" -> "http://localhost:11434/v1/chat/completions"]

\* The environment a run may find: LLM_PROVIDER (lower-cased), LLM_API_KEY,
\* LLM_ENDPOINT ("": not set).
Environments ==
    [provider : DOMAIN PROVIDER_DEFAULTS \cup {"mistral"},
     api_key : {"", "sk-key"},
     endpoint : {"", "https://llm.example/v1"}]

\* LLMConfig.__init__
LLMConfig(env) ==
    [provider |-> env.provider,
     api_key |-> env.api_key,
     endpoint |-> IF env.endpoint # "" THEN env.endpoint
                  ELSE IF env.provider \in DOMAIN PROVIDER_DEFAULTS
                       THEN PROVIDER_DEFAULTS[env.provider]
                       ELSE ""]

\* Faulty variant: the API key is not checked.
validate_NoKeyCheck(c) == c.endpoint # ""

\* LLMConfig.validate: TRUE when it returns, FALSE when it raises ValueError
\* (an unknown provider only prints a warning).
validate(c) ==
    IF c.api_key = "" THEN FALSE
    ELSE IF c.endpoint = "" THEN FALSE
    ELSE TRUE

\* Faulty variant: grok and ollama are missing from the OpenAI-compatible list.
call_llm_dispatch_ShortList(provider) ==
    IF provider = "anthropic" THEN "call_anthropic"
    ELSE IF provider = "gemini" THEN "call_gemini"
    ELSE IF provider \in {"openai", "openrouter"} THEN "call_openai_compatible"
    ELSE "ValueError"

\* call_llm's dispatch: the provider function it calls, or "ValueError".
call_llm_dispatch(provider) ==
    IF provider = "anthropic" THEN "call_anthropic"
    ELSE IF provider = "gemini" THEN "call_gemini"
    ELSE IF provider \in {"openai", "openrouter", "grok", "ollama"}
         THEN "call_openai_compatible"
    ELSE "ValueError"

\* How the provider function's HTTP request ends: requests.post raises
\* (timeout, connection), raise_for_status raises, the answer has not the
\* expected envelope (KeyError, IndexError), or the text is extracted.
LlmOutcomes == {"timeout", "connection_error", "http_error", "bad_envelope", "text"}
LlmFailures == LlmOutcomes \ {"text"}

s_bee == <<"b","e","e">>

\* The texts an LLM may answer with: a JSON object with both fields, one that
\* keeps the extracted name, an object without the fields, text that is not
\* JSON, and JSON that is not an object.
LlmTexts ==
    {[json |-> "object", raw |-> "{both}",
      fields |-> [cleaned_name |-> s_bee, skill_content |-> "manifest"]],
     [json |-> "object", raw |-> "{same}",
      fields |-> [cleaned_name |-> s_b, skill_content |-> "manifest-b"]],
     [json |-> "object", raw |-> "{}", fields |-> <<>>],
     [json |-> "invalid", raw |-> "Here is your skill", fields |-> <<>>],
     [json |-> "array", raw |-> "[]", fields |-> <<>>]}

\* call_llm(config, user_message): the function chosen, the HTTP requests
\* made, and the text returned or "raised".
call_llm(c, outcome, text) ==
    LET path == call_llm_dispatch(c.provider)
    IN  IF path = "ValueError"
        THEN [path |-> path, requests |-> 0, outcome |-> "none", ret |-> "raised",
              text |-> NoText]
        ELSE IF outcome = "text"
        THEN [path |-> path, requests |-> 1, outcome |-> outcome, ret |-> "text",
              text |-> text]
        ELSE [path |-> path, requests |-> 1, outcome |-> outcome, ret |-> "raised",
              text |-> NoText]

\* ----------------------------------------------------------- bundle finalizer
\* The .md files prepare_context_from_files finds in resources/.
MdFiles(fs) == {f \in DOMAIN fs : EndsWith(f, s_md)}

\* Lines 558-565: json.loads and the two .get calls. json.loads raises
\* JSONDecodeError on text that is not JSON (caught: the fallback); .get on a
\* value that is not a dict raises AttributeError (not caught here).
ParseResponse(text, extracted_name) ==
    IF text.json = "invalid"
    THEN [ret |-> "ok", cleaned_name |-> extracted_name, skill_content |-> text.raw]
    ELSE IF text.json = "object"
    THEN [ret |-> "ok",
          cleaned_name |-> IF "cleaned_name" \in DOMAIN text.fields
                           THEN text.fields.cleaned_name ELSE extracted_name,
          skill_content |-> IF "skill_content" \in DOMAIN text.fields
                            THEN text.fields.skill_content ELSE ""]
    ELSE [ret |-> "raised", cleaned_name |-> <<>>, skill_content |-> ""]

\* Faulty variant: output_dir is assigned before os.rename is called.
RenameDir_AssignFirst(disk, output_dir, new_output_dir, ok) ==
    IF ok
    THEN [ret |-> "ok", disk |-> IF disk = output_dir THEN new_output_dir ELSE disk,
          output_dir |-> new_output_dir]
    ELSE [ret |-> "raised", disk |-> disk, output_dir |-> new_output_dir]

\* Lines 583-584: os.rename(output_dir, new_output_dir) renames the directory
\* or raises leaving it as it is; output_dir is assigned after it returned.
RenameDir(disk, output_dir, new_output_dir, ok) ==
    IF ok
    THEN [ret |-> "ok", disk |-> IF disk = output_dir THEN new_output_dir ELSE disk,
          output_dir |-> new_output_dir]
    ELSE [ret |-> "raised", disk |-> disk, output_dir |-> output_dir]

\* Faulty variant: the try has no handler, the exception leaves generate_skill_md.
ExceptReturn_NoHandler(output_dir) == [pc |-> "crashed", returned |-> <<>>]

\* Lines 606-610, the handler of generate_skill_md's try: the function returns
\* its local output_dir.
ExceptReturn(output_dir) == [pc |-> "done", returned |-> output_dir]

\* A return of generate_skill_md to main, which stores the path (line 673).
FinReturn(r) ==
    /\ pc' = r.pc
    /\ returned' = r.returned
    /\ output' = r.returned

\* generate_skill_md, lines 519-537: the configuration and the context.
FinValidate ==
    /\ pc = "fin_validate"
    /\ \E env \in Environments :
        /\ config' = LLMConfig(env)
        /\ IF ~validate(config') \/ MdFiles(files) = {}
           THEN FinReturn([pc |-> "done", returned |-> fin_output_dir])
           ELSE /\ pc' = "fin_call"
                /\ UNCHANGED <<returned, output>>
    /\ UNCHANGED <<url, all_domains, bundleDir, files, skill, seed_fetch, collected,
                   links, remaining, last, attempts, results, successful,
                   fin_output_dir, llm_path, llm_outcome, llm_response, net_calls,
                   cleaned_name, skill_content, fnVars>>

\* generate_skill_md, lines 553-555: the call of the LLM.
FinCallLlm ==
    /\ pc = "fin_call"
    /\ \E outcome \in LlmOutcomes, text \in LlmTexts :
        LET r == call_llm(config, outcome, text)
        IN  /\ llm_path' = r.path
            /\ llm_outcome' = r.outcome
            /\ net_calls' = net_calls + r.requests
            /\ llm_response' = r.text
            /\ IF r.ret = "raised"
               THEN FinReturn(ExceptReturn(fin_output_dir))
               ELSE /\ pc' = "fin_parse"
                    /\ UNCHANGED <<returned, output>>
    /\ UNCHANGED <<url, all_domains, bundleDir, files, skill, seed_fetch, collected,
                   links, remaining, last, attempts, results, successful,
                   config, fin_output_dir, cleaned_name, skill_content, fnVars>>

\* generate_skill_md, lines 557-565: the answer is parsed.
FinParse ==
    /\ pc = "fin_parse"
    /\ LET r == ParseResponse(llm_response, get_domain_name(url))
       IN  /\ cleaned_name' = r.cleaned_name
           /\ skill_content' = r.skill_content
           /\ IF r.ret = "raised"
              THEN FinReturn(ExceptReturn(fin_output_dir))
              ELSE /\ pc' = "fin_rename"
                   /\ UNCHANGED <<returned, output>>
    /\ UNCHANGED <<url, all_domains, bundleDir, files, skill, seed_fetch, collected,
                   links, remaining, last, attempts, results, successful,
                   config, fin_output_dir, llm_path, llm_outcome, llm_response,
                   net_calls, fnVars>>

\* generate_skill_md, lines 567-586: the directory is renamed when its name is
\* not "use-" + cleaned_name.
FinRename ==
    /\ pc = "fin_rename"
    /\ LET final_skill_name == s_use \o cleaned_name
       IN  IF final_skill_name # fin_output_dir
           THEN \E ok \in BOOLEAN :
                   LET r == RenameDir(bundleDir, fin_output_dir, final_skill_name, ok)
                   IN  /\ bundleDir' = r.disk
                       /\ fin_output_dir' = r.output_dir
                       /\ IF r.ret = "raised"
                          THEN FinReturn(ExceptReturn(r.output_dir))
                          ELSE /\ pc' = "fin_write"
                               /\ UNCHANGED <<returned, output>>
           ELSE /\ pc' = "fin_write"
                /\ UNCHANGED <<bundleDir, fin_output_dir, returned, output>>
    /\ UNCHANGED <<url, all_domains, files, skill, seed_fetch, collected,
                   links, remaining, last, attempts, results, successful,
                   config, llm_path, llm_outcome, llm_response, net_calls,
                   cleaned_name, skill_content, fnVars>>

\* generate_skill_md, lines 588-604: SKILL.md is written into output_dir.
FinWrite ==
    /\ pc = "fin_write"
    /\ \E write \in WriteOutcomes :
        /\ skill' = IF write = "open_failed" THEN skill
                    ELSE [written |-> TRUE, complete |-> write = "ok",
                          dir |-> fin_output_dir,
                          content |-> IF write = "ok" THEN skill_content ELSE ""]
        /\ IF write = "ok"
           THEN FinReturn([pc |-> "done", returned |-> fin_output_dir])
           ELSE FinReturn(ExceptReturn(fin_output_dir))
    /\ UNCHANGED <<url, all_domains, bundleDir, files, seed_fetch, collected,
                   links, remaining, last, attempts, results, successful,
                   config, fin_output_dir, llm_path, llm_outcome, llm_response,
                   net_calls, cleaned_name, skill_content, fnVars>>

\* ---------------------------------------------------------- specifications
\* The run of main() up to its call of generate_skill_md.
Next ==
    \/ MainCollect
    \/ \E l \in LinkIds : MainScrape(l)
    \/ MainAfterLoop

Spec == Init /\ [][Next]_vars

\* generate_skill_md from its call by main: a bundle with at least one
\* archived page, in the directory main created.
ArchivedFileSets ==
    {[f \in {s_foo \o s_md} |-> [src |-> 1, complete |-> TRUE]],
     [f \in {s_foo \o s_md, s_foo \o <<"_", "1">> \o s_md} |->
        IF f = s_foo \o s_md THEN InitialFile ELSE [src |-> 2, complete |-> TRUE]]}

FinalizerInit ==
    /\ pc = "fin_validate"
    /\ url \in SeedUrls
    /\ all_domains = FALSE
    /\ output \in {get_domain_name(url), s_use_b}
    /\ bundleDir = output
    /\ fin_output_dir = output
    /\ files \in ArchivedFileSets
    /\ skill = NoSkill
    /\ seed_fetch = "ok"
    /\ LET l == IF s_foo \o <<"_", "1">> \o s_md \in DOMAIN files THEN 2 ELSE 1
       IN  /\ collected = {l}
           /\ links = {l}
           /\ last = [link |-> l, response |-> "html", write |-> "ok"]
           /\ attempts = [k \in LinkIds |-> IF k = l THEN 1 ELSE 0]
           /\ results = [k \in LinkIds |-> IF k = l THEN "true" ELSE "none"]
    /\ remaining = {}
    /\ successful = 1
    /\ config = NoConfig
    /\ llm_path = "none"
    /\ llm_outcome = "none"
    /\ llm_response = NoText
    /\ net_calls = 0
    /\ cleaned_name = <<>>
    /\ skill_content = ""
    /\ returned = <<>>
    /\ fn_arg = NoFn
    /\ fn_ret = <<>>

\* What every state in which main calls generate_skill_md satisfies (an
\* invariant of Spec), and what FinalizerInit therefore starts from.
FinalizerEntry ==
    pc = "fin_validate" =>
        /\ fin_output_dir = output
        /\ bundleDir = output
        /\ output \in {get_domain_name(url), s_use_b}
        /\ MdFiles(files) # {}
        /\ skill = NoSkill
        /\ successful > 0
        /\ config = NoConfig /\ llm_path = "none" /\ llm_outcome = "none"
        /\ llm_response = NoText /\ net_calls = 0 /\ returned = <<>>

FinalizerNext ==
    \/ FinValidate
    \/ FinCallLlm
    \/ FinParse
    \/ FinRename
    \/ FinWrite

SpecFinalizer == FinalizerInit /\ [][FinalizerNext]_vars

\* The naming functions on their own: the argument is drawn from a bounded set
\* of URLs, the one action calls the function; main() is not running.
RunIdle ==
    /\ pc = "idle"
    /\ url = MkUrl(s_https, <<>>, h_docs_b_com, <<>>, <<"/">>)
    /\ all_domains = FALSE
    /\ output = <<>>
    /\ bundleDir = <<>>
    /\ files = <<>>
    /\ skill = NoSkill
    /\ seed_fetch = "none"
    /\ collected = {}
    /\ links = {}
    /\ remaining = {}
    /\ last = NoCall
    /\ attempts = [l \in LinkIds |-> 0]
    /\ results = [l \in LinkIds |-> "none"]
    /\ successful = 0
    /\ FinInit

RECURSIVE SeqsUpTo(_, _)
SeqsUpTo(S, n) ==
    IF n = 0 THEN {<<>>}
    ELSE LET shorter == SeqsUpTo(S, n - 1)
         IN  shorter \cup {Append(q, x) : q \in {r \in shorter : Len(r) = n - 1}, x \in S}

s_8443 == <<"8","4","4","3">>
HostLabels == {s_docs, <<"B","r","i","g","h","t">>, s_com}
UserInfos == {<<>>, <<"u">>, <<"u", ":", "p", "w">>}
Ports == {<<>>, s_8443}
DomainPaths == {<<>>, <<"/", "x">>, <<"/", "a", ".", "b", ":", "c">>}

DomainUrls ==
    {MkUrl(scheme, userinfo, Join(labels, "."), port, path) :
        scheme \in {s_http, s_https}, userinfo \in UserInfos,
        labels \in SeqsUpTo(HostLabels, MaxLabels) \ {<<>>},
        port \in Ports, path \in DomainPaths}

DomainInit ==
    /\ RunIdle
    /\ fn_arg \in [called : {FALSE}, fn : {"get_domain_name"}, url : DomainUrls]
    /\ fn_ret = <<>>

DomainCall ==
    /\ fn_arg.fn = "get_domain_name"
    /\ ~fn_arg.called
    /\ fn_arg' = [fn_arg EXCEPT !.called = TRUE]
    /\ fn_ret' = get_domain_name(fn_arg.url)
    /\ UNCHANGED <<runVars, finVars>>

SpecDomain == DomainInit /\ [][DomainCall]_vars

LongSegment == [i \in 1..60 |-> "x"]
PathSegments ==
    {s_docs, <<"V","2">>, s_api_reference, s_webhooks, s_events, <<>>,
     <<"a", ".", "H", "T", "M", "L">>, <<"x", " ", "y">>, LongSegment}

ExamplePath ==
    <<"/">> \o Join(<<s_docs, s_v2, s_api_reference, s_webhooks, s_events>>, "/")

FilenamePaths ==
    {<<>>, ExamplePath}
    \cup {<<"/">> \o Join(segs, "/") : segs \in SeqsUpTo(PathSegments, MaxSegs)}

FilenameInit ==
    /\ RunIdle
    /\ fn_arg \in [called : {FALSE}, fn : {"get_filename_from_url"},
                   url : {MkUrl(s_https, <<>>, h_docs_b_com, <<>>, path) :
                            path \in FilenamePaths}]
    /\ fn_ret = <<>>

FilenameCall ==
    /\ fn_arg.fn = "get_filename_from_url"
    /\ ~fn_arg.called
    /\ fn_arg' = [fn_arg EXCEPT !.called = TRUE]
    /\ fn_ret' = get_filename_from_url(fn_arg.url)
    /\ UNCHANGED <<runVars, finVars>>

SpecFilename == FilenameInit /\ [][FilenameCall]_vars

\* ------------------------------------------------------------------ claims
\* The link whose scrape_url call this step is, 0 when the step is none.
ScrapedLink == IF last.link \in LinkIds THEN last.link ELSE 0

\* The file name the collision policy is said to give: base.md when it is
\* free, else base_k.md for the least k >= 1 that is free.
C1_Candidate(base, k) ==
    IF k = 0 THEN base \o s_md ELSE base \o <<"_">> \o Decimal(k) \o s_md

C1_ExpectedName(base, existing) ==
    LET k == CHOOSE n \in 0..Cardinality(existing) :
                /\ C1_Candidate(base, n) \notin existing
                /\ \A m \in 0..(n - 1) : C1_Candidate(base, m) \in existing
    IN  C1_Candidate(base, k)

C1_IsScrapeStep == \E l \in LinkIds : attempts'[l] = attempts[l] + 1

\* C1: a scrape_url call never overwrites: every file that existed before the
\* call is there afterwards with the same content, and a call that returns
\* True has created exactly one file, at a path that did not exist, named
\* <base>.md or else <base>_1.md, <base>_2.md, ... (the first that is free).
C1_NoOverwrite ==
    [][C1_IsScrapeStep =>
        LET l == last'.link
            base == get_filename_from_url(LinkUrls[l])
        IN  /\ \A f \in DOMAIN files : f \in DOMAIN files' /\ files'[f] = files[f]
            /\ results'[l] = "true" =>
                /\ DOMAIN files' = DOMAIN files \cup {C1_ExpectedName(base, DOMAIN files)}
                /\ C1_ExpectedName(base, DOMAIN files) \notin DOMAIN files
                /\ files'[C1_ExpectedName(base, DOMAIN files)] = [src |-> l, complete |-> TRUE]
    ]_vars

\* Two URLs with the base name foo were archived into a directory that already
\* held foo.md: they became foo_1.md and foo_2.md, foo.md is as it was.
C1_Witness ==
    /\ {s_foo \o s_md, C1_Candidate(s_foo, 1), C1_Candidate(s_foo, 2)} \subseteq DOMAIN files
    /\ files[s_foo \o s_md] = InitialFile
    /\ files[C1_Candidate(s_foo, 1)].src # files[C1_Candidate(s_foo, 2)].src
    /\ files[C1_Candidate(s_foo, 1)].complete
    /\ files[C1_Candidate(s_foo, 2)].complete

C2_Failed(c) == c.response = "error" \/ c.write \in {"open_failed", "write_failed"}

\* C2: a failure inside scrape_url becomes the result False and the loop goes
\* on: main never ends by an exception, no link is attempted twice, and when
\* the loop has ended every link of the filtered set was attempted exactly
\* once. The loop ends: in the loop a step can always be taken, and every step
\* taken there either removes one link from the finite set still to do or,
\* when none is left, leaves the loop.
C2_FailureIsolated ==
    /\ [](pc # "crashed")
    /\ [](\A l \in LinkIds : attempts[l] <= 1)
    /\ [](ScrapedLink # 0 /\ C2_Failed(last) => results[ScrapedLink] = "false")
    /\ [](pc \in {"fin_validate", "done"} =>
            \A l \in LinkIds : attempts[l] = IF l \in links THEN 1 ELSE 0)
    /\ [](pc = "scrape" => ENABLED Next)
    /\ [][pc = "scrape" =>
            \/ /\ pc' = "scrape"
               /\ remaining' \subseteq remaining
               /\ Cardinality(remaining') = Cardinality(remaining) - 1
            \/ /\ pc' \in {"fin_validate", "done"}
               /\ remaining = {}
         ]_vars

\* The loop has ended after the write of one link's file raised (its partial
\* file is there) and another link, attempted after it, was archived.
C2_Witness ==
    /\ pc = "fin_validate"
    /\ last.response = "html" /\ last.write = "ok"
    /\ \E f \in DOMAIN files :
        /\ ~files[f].complete
        /\ files[f].src # last.link
        /\ results[files[f].src] = "false"
    /\ \A l \in links : attempts[l] = 1

\* C3: with the filter (all_domains not set) every link given to scrape_url has
\* the seed's host; without it every link found on the seed page is given to
\* scrape_url.
C3_HostFilter ==
    /\ ~all_domains =>
        \A l \in LinkIds : attempts[l] > 0 => LinkUrls[l].host = url.host
    /\ (all_domains /\ pc \in {"fin_validate", "done"}) =>
        \A l \in collected : attempts[l] = 1

\* With the filter, the page held a link to another host (api.b.com) and a
\* link that was archived: the loop has ended and the other host's link was
\* not requested.
C3_Witness ==
    /\ ~all_domains
    /\ pc = "fin_validate"
    /\ 4 \in collected
    /\ attempts[4] = 0
    /\ \E l \in collected : results[l] = "true"

FinPcs == {"fin_validate", "fin_call", "fin_parse", "fin_rename", "fin_write"}

C5_IsExpectedObject(text) ==
    text.json = "object" /\ {"cleaned_name", "skill_content"} \subseteq DOMAIN text.fields

\* C5: whatever text the LLM returned, once generate_skill_md is past the call
\* it has a cleaned name and a manifest text and goes on to the rename and the
\* manifest: from the object's two fields when the text is such an object, and
\* the domain name and the raw text when the text does not parse as an object.
\* It does not return from the parsing step.
C5_MalformedNeverPreventsManifest ==
    (llm_outcome = "text" /\ pc \in {"fin_rename", "fin_write", "done"}) =>
        /\ C5_IsExpectedObject(llm_response) =>
            /\ cleaned_name = llm_response.fields.cleaned_name
            /\ skill_content = llm_response.fields.skill_content
        /\ llm_response.json \in {"invalid", "array"} =>
            /\ cleaned_name = get_domain_name(url)
            /\ skill_content = llm_response.raw

C6_Recognized == {"anthropic", "openai", "openrouter", "gemini", "grok", "ollama"}

C6_Invalid(c) ==
    c.api_key = "" \/ c.endpoint = "" \/ c.provider \notin C6_Recognized

\* C6: with an invalid configuration (no API key, no endpoint, or a provider
\* that is not recognized) every step of generate_skill_md makes no LLM
\* request, leaves the directory's name, its files and SKILL.md alone, and the
\* function returns, at the latest from the call step, the path it was given.
C6_InvalidConfigSkips ==
    [][(pc \in FinPcs /\ C6_Invalid(config')) =>
            /\ net_calls' = net_calls
            /\ bundleDir' = bundleDir
            /\ files' = files
            /\ skill' = skill /\ ~skill'.written
            /\ pc' \in {"fin_call", "done"}
            /\ pc = "fin_call" => pc' = "done"
            /\ pc' = "done" => returned' = fin_output_dir /\ returned' = bundleDir
      ]_vars

\* A provider that is not recognized, with a key and an endpoint set:
\* generate_skill_md has returned the directory without a request.
C6_Witness ==
    /\ pc = "done"
    /\ config.provider = "mistral"
    /\ config.api_key # ""
    /\ config.endpoint # ""
    /\ net_calls = 0
    /\ ~skill.written
    /\ returned = bundleDir

C7_Expected(provider) ==
    CASE provider = "anthropic" -> "call_anthropic"
      [] provider = "gemini" -> "call_gemini"
      [] provider \in {"openai", "openrouter", "grok", "ollama"} -> "call_openai_compatible"
      [] OTHER -> "ValueError"

\* C7: call_llm takes the Anthropic function for 'anthropic', the Gemini
\* function for 'gemini', the OpenAI-compatible function for 'openai',
\* 'openrouter', 'grok' and 'ollama', and for any other provider raises
\* without a request having been made.
C7_Dispatch ==
    llm_path # "none" =>
        /\ llm_path = C7_Expected(config.provider)
        /\ llm_path = "ValueError" => net_calls = 0 /\ llm_outcome = "none"
        /\ llm_path # "ValueError" => net_calls = 1

\* call_llm was called for 'grok' and took the OpenAI-compatible function.
C7_Witness ==
    /\ config.provider = "grok"
    /\ llm_path = "call_openai_compatible"
    /\ net_calls = 1

\* C8: when the LLM call fails (timeout, connection error, HTTP error status,
\* unexpected envelope) generate_skill_md returns at once the path it was
\* given: the directory keeps its name, resources/ is unchanged and no
\* SKILL.md is written.
C8_LlmFailureAbortsManifestOnly ==
    [][(pc = "fin_call" /\ llm_outcome' \in LlmFailures) =>
            /\ pc' = "done"
            /\ returned' = fin_output_dir
            /\ returned' = bundleDir
            /\ bundleDir' = bundleDir
            /\ files' = files
            /\ skill' = skill /\ ~skill'.written
      ]_vars

\* The request was answered with an unexpected envelope and generate_skill_md
\* has returned.
C8_Witness ==
    /\ pc = "done"
    /\ llm_outcome = "bad_envelope"
    /\ net_calls = 1
    /\ ~skill.written
    /\ returned = bundleDir
    /\ files # <<>>

\* C9: get_domain_name returns the second-to-last label of the URL's host,
\* lower-cased, when the host has two labels or more, and the one label,
\* lower-cased, otherwise; whatever the scheme, user information, port and
\* path are.
C9_SecondToLastLabel ==
    (fn_arg.called /\ fn_arg.fn = "get_domain_name") =>
        LET labels == Split(fn_arg.url.host, ".")
        IN  fn_ret = IF Len(labels) >= 2 THEN Lower(labels[Len(labels) - 1])
                     ELSE Lower(labels[1])

C10_StopList ==
    {s_docs, s_documentation, s_reference, s_guide, s_api_reference,
     s_en, s_v1, s_v2, s_v3}

\* The segments said to be kept: those at the (at most) three greatest
\* positions whose segment is not in the stop-list, or the last segment when all
\* are in it.
C10_Selected(segs) ==
    LET surviving == {i \in DOMAIN segs : Lower(segs[i]) \notin C10_StopList}
        chosen == IF surviving = {} THEN {Len(segs)}
                  ELSE {i \in surviving :
                          Cardinality({j \in surviving : j > i}) < 3}
    IN  KeepAt(segs, chosen, 1, Len(segs))

C10_Plain(seg) == seg # <<>> /\ \A i \in DOMAIN seg : IsWordChar(seg[i])

C11_NewFiles == {f \in DOMAIN files : files[f].src # 0}

\* C11 as stated: the page scraped last has a file under resources/ exactly
\* when its fetch succeeded with an HTML content type and a non-empty
\* conversion, a non-HTML or empty page gives False, and the number of new
\* files equals the number of True results.
C11_FileIffHtmlNonEmpty ==
    /\ ScrapedLink # 0 =>
        /\ (\E f \in DOMAIN files : files[f].src = last.link) <=> last.response = "html"
        /\ last.response \in {"nonhtml", "empty"} => results[last.link] = "false"
    /\ Cardinality(C11_NewFiles) = successful

\* C11, amended: scrape_url returns True exactly when the fetch succeeded with
\* an HTML content type and a non-empty conversion and the file was created
\* and written without an error, and it then adds exactly one, completely
\* written file; a non-HTML or empty page (and a failed fetch) gives False and
\* leaves the directory unchanged; a failure to create the file gives False and
\* no file, a failure while writing gives False and one incomplete file. So
\* the number of new completely written files equals the number of True
\* results, and the number of new files is at least that.
C11_FileIffWritten ==
    /\ [][C1_IsScrapeStep =>
            LET c == last'
                l == c.link
                added == DOMAIN files' \ DOMAIN files
            IN  /\ results'[l] \in {"true", "false"}
                /\ results'[l] = "true" <=> (c.response = "html" /\ c.write = "ok")
                /\ \A f \in DOMAIN files : files'[f] = files[f]
                /\ results'[l] = "true" =>
                        /\ Cardinality(added) = 1
                        /\ \A f \in added : files'[f] = [src |-> l, complete |-> TRUE]
                /\ c.response \in {"error", "nonhtml", "empty"} => files' = files
                /\ (c.response = "html" /\ c.write = "open_failed") => files' = files
                /\ (c.response = "html" /\ c.write = "write_failed") =>
                        /\ Cardinality(added) = 1
                        /\ \A f \in added : files'[f] = [src |-> l, complete |-> FALSE]
       ]_vars
    /\ [](/\ Cardinality({f \in C11_NewFiles : files[f].complete}) = successful
          /\ Cardinality(C11_NewFiles) >= successful)

\* The loop has ended after a non-HTML page was skipped and another page was
\* written: one new file, one True result.
C11_Witness ==
    /\ pc = "fin_validate"
    /\ Cardinality(links) = 2
    /\ last.response = "nonhtml"
    /\ results[last.link] = "false"
    /\ successful = 1
    /\ Cardinality(C11_NewFiles) = 1

\* ---------------------------------------------------------------- C12
\* The orders in which a for loop can go through the set S.
Orders(S) ==
    {o \in [1..Cardinality(S) -> S] : \A i, j \in 1..Cardinality(S) : o[i] = o[j] => i = j}

\* main(), lines 659-661, run to the end: the directory after scrape_url was
\* called on the links in the given order, response[l] and write[l] being how
\* the request and the write of link l end.
RECURSIVE ArchiveInOrder(_, _, _, _)
ArchiveInOrder(fs, order, response, write) ==
    IF order = <<>> THEN fs
    ELSE ArchiveInOrder(scrape_url(fs, Head(order), response[Head(order)],
                                   write[Head(order)]).files,
                        Tail(order), response, write)

\* The directory the run started from, and how each link's request and write
\* ended in this run, read back from the files it left: a link with a complete
\* file was an HTML page written in full, one with an incomplete file an HTML
\* page whose write failed, and one with no file is replayed as a skipped
\* page (every outcome without a file leaves the directory as it was).
C12_InitialFiles ==
    LET old == {f \in DOMAIN files : files[f].src = 0}
    IN  [f \in old |-> files[f]]

C12_Response ==
    [l \in LinkIds |-> IF \E f \in DOMAIN files : files[f].src = l
                       THEN "html" ELSE "nonhtml"]

C12_Write ==
    [l \in LinkIds |-> IF \E f \in DOMAIN files : files[f].src = l /\ ~files[f].complete
                       THEN "write_failed" ELSE "ok"]

\* C12 as stated: when the loop has ended, the set of file names under
\* resources/ is the one that every other order of the same links, with the
\* same outcome per link and the same initial directory, ends with.
C12_OrderInsensitive ==
    (pc \in {"fin_validate", "done"} /\ seed_fetch = "ok") =>
        \A order \in Orders(links) :
            DOMAIN ArchiveInOrder(C12_InitialFiles, order, C12_Response, C12_Write)
                = DOMAIN files

\* ---------------------------------------------------------------- C13
\* C13: when the seed request fails, get_all_links returns the empty set and
\* main returns at once: the run is over without an exception, scrape_url was
\* called on no link, generate_skill_md and the LLM were not reached, and the
\* output directory made before the request is there, holding only the files
\* it held before.
C13_SeedFailureEndsRun ==
    seed_fetch = "error" =>
        /\ pc = "done"
        /\ ~ENABLED Next
        /\ collected = {}
        /\ links = {}
        /\ remaining = {}
        /\ \A l \in LinkIds : attempts[l] = 0 /\ results[l] = "none"
        /\ last = NoCall
        /\ successful = 0
        /\ bundleDir # <<>>
        /\ bundleDir = output
        /\ \A f \in DOMAIN files : files[f] = InitialFile
        /\ FinInit
        /\ skill = NoSkill

\* The seed request failed over a directory that held a file already.
C13_Witness ==
    /\ seed_fetch = "error"
    /\ pc = "done"
    /\ bundleDir = get_domain_name(url)
    /\ DOMAIN files = {s_foo \o s_md}

====
